---- MODULE Spec2Model ----
(***************************************************************************)
(* Model of app.py of text-to-podcast: the sentence chunker and summariser *)
(* call of summarize_large_text, and the two Streamlit request flows       *)
(* (document tab, topic tab) with their temporary files.                   *)
(*                                                                         *)
(* A Python string is a sequence of symbols.  Every symbol is one          *)
(* character, except EOS, the five characters "<eos>" taken whole, and     *)
(* LongWord, a run of letters as long as the default chunk size.  No other *)
(* symbol is one of the characters < e o s >, so an occurrence of "<eos>"  *)
(* in a string is exactly an EOS symbol of the sequence.                   *)
(***************************************************************************)
EXTENDS Integers, Sequences, FiniteSets, TLC

\* ------------------------------------------------------------ bounds
MaxLen == 4
MaxChunkSize == 6
MaxDocLen == 3

\* ------------------------------------------------------- program constants
DefaultChunkSize == 1024

EOS == "<eos>"
LongWord == "W"
Punctuation == {".", "?", "!"}
Whitespace == {" "}

Alphabet == {"a", " ", ".", "?", "!", EOS}
DocAlphabet == {"a", ".", LongWord}

SeqsUpTo(S, n) == UNION {[1..k -> S] : k \in 0..n}

Texts == SeqsUpTo(Alphabet, MaxLen)
ChunkSizes == (0 - 1)..MaxChunkSize
DocTexts == SeqsUpTo(DocAlphabet, MaxDocLen)

\* ------------------------------------------------------------ strings
CharLen(c) == IF c = EOS THEN 5 ELSE IF c = LongWord THEN DefaultChunkSize ELSE 1

RECURSIVE StrLen(_)
StrLen(s) == IF s = <<>> THEN 0 ELSE CharLen(Head(s)) + StrLen(Tail(s))

\* text.replace(c, c + '<eos>')
RECURSIVE ReplaceChar(_, _)
ReplaceChar(s, c) ==
    IF s = <<>> THEN <<>>
    ELSE IF Head(s) = c THEN <<c, EOS>> \o ReplaceChar(Tail(s), c)
    ELSE <<Head(s)>> \o ReplaceChar(Tail(s), c)

Preprocess(text) == ReplaceChar(ReplaceChar(ReplaceChar(text, "."), "?"), "!")

\* text.split('<eos>'): k occurrences give k + 1 pieces, empty ones kept
RECURSIVE SplitEos(_)
SplitEos(s) ==
    IF s = <<>> THEN << <<>> >>
    ELSE LET rest == SplitEos(Tail(s))
         IN IF Head(s) = EOS THEN << <<>> >> \o rest
            ELSE << <<Head(s)>> \o Head(rest) >> \o Tail(rest)

\* " ".join(parts)
RECURSIVE JoinSpace(_)
JoinSpace(parts) ==
    IF parts = <<>> THEN <<>>
    ELSE IF Len(parts) = 1 THEN Head(parts)
    ELSE Head(parts) \o <<" ">> \o JoinSpace(Tail(parts))

\* ------------------------------------------------- summarize_large_text
\* the loop body with the comparison made strict (< for <=)
LoopBodyStrict(current_chunk, chunks, sentence, cs) ==
    IF StrLen(current_chunk) + StrLen(sentence) < cs
    THEN [current_chunk |-> current_chunk \o sentence, chunks |-> chunks]
    ELSE [current_chunk |-> sentence, chunks |-> Append(chunks, current_chunk)]

\* one iteration of "for sentence in sentences"
LoopBody(current_chunk, chunks, sentence, cs) ==
    IF StrLen(current_chunk) + StrLen(sentence) <= cs
    THEN [current_chunk |-> current_chunk \o sentence, chunks |-> chunks]
    ELSE [current_chunk |-> sentence, chunks |-> Append(chunks, current_chunk)]

RECURSIVE ChunkLoop(_, _, _, _)
ChunkLoop(sentences, current_chunk, chunks, cs) ==
    IF sentences = <<>> THEN [current_chunk |-> current_chunk, chunks |-> chunks]
    ELSE LET r == LoopBody(current_chunk, chunks, Head(sentences), cs)
         IN ChunkLoop(Tail(sentences), r.current_chunk, r.chunks, cs)

Sentences(text) == SplitEos(Preprocess(text))

\* lines 53-68: the chunks handed to the summarizer
Chunker(text, cs) ==
    LET r == ChunkLoop(Sentences(text), <<>>, <<>>, cs)
    IN IF r.current_chunk # <<>> THEN Append(r.chunks, r.current_chunk) ELSE r.chunks

\* ------------------------------------------------------------- state
VARIABLES
    pc,             \* position of the Streamlit script run
    tab,            \* "doc" (tab1), "topic" (tab2) or "none"
    uploaded_file,  \* [ext, parses, text] of the uploaded document
    button,         \* whether summarize_btn was clicked in this run
    topic_input,
    raw_text, summary, generated_text,
    shown,          \* what the run has rendered, in order
    calls,          \* calls of summarizer, text_generator, synthesize_speech
    disk,           \* temporary files that exist
    created,        \* temporary files this run has created
    outcome,
    slt_pc,         \* position inside summarize_large_text
    text, chunk_size, chunks, slt_result, fail_index

vars == <<pc, tab, uploaded_file, button, topic_input, raw_text, summary,
          generated_text, shown, calls, disk, created, outcome,
          slt_pc, text, chunk_size, chunks, slt_result, fail_index>>

flowVars == <<pc, tab, uploaded_file, button, topic_input, raw_text, summary,
              generated_text, shown, disk, created, outcome>>
sltVars == <<slt_pc, text, chunk_size, chunks, slt_result, fail_index>>

None == <<"<None>">>
Truthy(s) == s # None /\ s # <<>>

SummaryTexts == {<<"b">>, <<"c">>}
GeneratedTails == {<<>>, <<"g">>}
Topics == {<<>>, <<"a">>, <<"a", " ", "a">>}
Extensions == {".txt", ".pdf", ".docx", ".doc", ".TXT"}
Files == [ext : Extensions, parses : BOOLEAN, text : DocTexts]
NoFile == [ext |-> "", parses |-> FALSE, text |-> <<>>]

CredentialsFile == "credentials.json"
StagingFile == "staging.docx"
AudioFile == "audio.mp3"

FlowInit ==
    /\ pc = "idle" /\ tab = "none" /\ uploaded_file = NoFile /\ button = FALSE
    /\ topic_input = <<>> /\ raw_text = None /\ summary = None
    /\ generated_text = None /\ shown = <<>> /\ calls = <<>>
    /\ disk = {CredentialsFile} /\ created = {} /\ outcome = "none"

SltIdle ==
    /\ slt_pc = "idle" /\ text = <<>> /\ chunk_size = DefaultChunkSize
    /\ chunks = <<>> /\ slt_result = None /\ fail_index = 0 - 1

\* ------------------------------------------------- summarize_large_text
\* lines 53-68
SLT_Chunk ==
    /\ slt_pc = "start"
    /\ chunks' = Chunker(text, chunk_size)
    /\ slt_pc' = "chunked"
    /\ UNCHANGED <<flowVars, calls, text, chunk_size, slt_result, fail_index>>

\* the summarizer call with a failing chunk swallowed: the rest is joined and returned
SLT_SummarizeKeepGoing ==
    /\ slt_pc = "chunked"
    /\ \E i \in 0..Len(chunks), outs \in [1..Len(chunks) -> SummaryTexts] :
          /\ fail_index' = i
          /\ slt_result' = JoinSpace(outs)
    /\ calls' = Append(calls, [fn |-> "summarizer", arg |-> chunks])
    /\ slt_pc' = "returned"
    /\ UNCHANGED <<flowVars, text, chunk_size, chunks>>

\* lines 71-72, the summarizer raising (on chunk fail_index, 1-based; 0: before any)
SLT_SummarizeRaise ==
    /\ slt_pc = "chunked"
    /\ \E i \in 0..Len(chunks) : fail_index' = i
    /\ calls' = Append(calls, [fn |-> "summarizer", arg |-> chunks])
    /\ slt_pc' = "raised"
    /\ UNCHANGED <<flowVars, text, chunk_size, chunks, slt_result>>

\* lines 71-72, the summarizer returning one summary per chunk
SLT_SummarizeOk ==
    /\ slt_pc = "chunked"
    /\ \E outs \in [1..Len(chunks) -> SummaryTexts] : slt_result' = JoinSpace(outs)
    /\ calls' = Append(calls, [fn |-> "summarizer", arg |-> chunks])
    /\ slt_pc' = "returned"
    /\ UNCHANGED <<flowVars, text, chunk_size, chunks, fail_index>>

SltNext == SLT_Chunk \/ SLT_SummarizeOk \/ SLT_SummarizeRaise

\* summarize_large_text(text, chunk_size) called directly
InitChunk ==
    /\ FlowInit
    /\ slt_pc = "start" /\ text \in Texts /\ chunk_size \in ChunkSizes
    /\ chunks = <<>> /\ slt_result = None /\ fail_index = 0 - 1

SpecChunk == InitChunk /\ [][SltNext]_vars

\* ---------------------------------------------------------- extract_text
\* lines 27-48: what extract_text(file) returns, None included; Raises when it raises
ExtractRaises(file) == file.ext \in {".txt", ".pdf", ".docx", ".doc"} /\ ~file.parses
ExtractResult(file) ==
    IF file.ext \in {".txt", ".pdf", ".docx", ".doc"} THEN file.text ELSE None
\* lines 41-45: the staging file is written, and removed after Document() returns
ExtractStages(file) == file.ext \in {".docx", ".doc"}

\* --------------------------------------------------- tab 1: from a document
\* lines 112, 117, 124: a script run with an uploaded file
T1_Run ==
    /\ pc = "idle"
    /\ \E f \in Files, b \in BOOLEAN : uploaded_file' = f /\ button' = b
    /\ tab' = "doc"
    /\ pc' = "extract"
    /\ UNCHANGED <<topic_input, raw_text, summary, generated_text, shown, calls,
                   disk, created, outcome, sltVars>>

\* line 118, extract_text returning
T1_Extract ==
    /\ pc = "extract"
    /\ ~ExtractRaises(uploaded_file)
    /\ raw_text' = ExtractResult(uploaded_file)
    /\ created' = IF ExtractStages(uploaded_file) THEN created \cup {StagingFile} ELSE created
    /\ disk' = disk \ {StagingFile}
    /\ pc' = "extracted"
    /\ UNCHANGED <<tab, uploaded_file, button, topic_input, summary, generated_text,
                   shown, calls, outcome, sltVars>>

\* line 118, extract_text raising (decode, fitz.open or Document)
T1_ExtractRaise ==
    /\ pc = "extract"
    /\ ExtractRaises(uploaded_file)
    /\ created' = IF ExtractStages(uploaded_file) THEN created \cup {StagingFile} ELSE created
    /\ disk' = IF ExtractStages(uploaded_file) THEN disk \cup {StagingFile} ELSE disk
    /\ shown' = Append(shown, "exception")
    /\ outcome' = "exception_extracting"
    /\ pc' = "failed"
    /\ UNCHANGED <<tab, uploaded_file, button, topic_input, raw_text, summary,
                   generated_text, calls, sltVars>>

\* lines 120-124 and 151-152
T1_Branch ==
    /\ pc = "extracted"
    /\ IF Truthy(raw_text)
       THEN /\ shown' = Append(shown, "preview")
            /\ IF button THEN pc' = "summarize" /\ outcome' = outcome
               ELSE pc' = "done" /\ outcome' = "preview_only"
       ELSE /\ shown' = Append(shown, "error_unsupported")
            /\ outcome' = "unsupported"
            /\ pc' = "failed"
    /\ UNCHANGED <<tab, uploaded_file, button, topic_input, raw_text, summary,
                   generated_text, calls, disk, created, sltVars>>

\* line 127, the call
T1_CallSummarize ==
    /\ pc = "summarize"
    /\ text' = raw_text /\ chunk_size' = DefaultChunkSize
    /\ slt_pc' = "start"
    /\ pc' = "summarizing"
    /\ UNCHANGED <<tab, uploaded_file, button, topic_input, raw_text, summary,
                   generated_text, shown, calls, disk, created, outcome,
                   chunks, slt_result, fail_index>>

\* summarize_large_text returning with the st.write(summary) of line 130 left out
T1_SummaryHidden ==
    /\ pc = "summarizing" /\ slt_pc = "returned"
    /\ summary' = slt_result
    /\ shown' = Append(shown, "success_summary")
    /\ slt_pc' = "idle"
    /\ pc' = "synthesize"
    /\ UNCHANGED <<tab, uploaded_file, button, topic_input, raw_text, generated_text,
                   calls, disk, created, outcome, text, chunk_size, chunks,
                   slt_result, fail_index>>

\* lines 127-130, summarize_large_text returning
T1_SummaryReturn ==
    /\ pc = "summarizing" /\ slt_pc = "returned"
    /\ summary' = slt_result
    /\ shown' = shown \o <<"success_summary", "summary">>
    /\ slt_pc' = "idle"
    /\ pc' = "synthesize"
    /\ UNCHANGED <<tab, uploaded_file, button, topic_input, raw_text, generated_text,
                   calls, disk, created, outcome, text, chunk_size, chunks,
                   slt_result, fail_index>>

\* line 127, summarize_large_text raising
T1_SummaryRaise ==
    /\ pc = "summarizing" /\ slt_pc = "raised"
    /\ shown' = Append(shown, "exception")
    /\ outcome' = "exception_summarizing"
    /\ slt_pc' = "idle"
    /\ pc' = "failed"
    /\ UNCHANGED <<tab, uploaded_file, button, topic_input, raw_text, summary,
                   generated_text, calls, disk, created, text, chunk_size, chunks,
                   slt_result, fail_index>>

\* the document text handed on in place of the summary
T1_SynthArgRaw == raw_text

\* line 135, the text handed to synthesize_speech
T1_SynthArg == summary

\* lines 133-138, synthesize_speech returning
T1_Synthesize ==
    /\ pc = "synthesize" /\ tab = "doc"
    /\ calls' = Append(calls, [fn |-> "synthesize_speech", arg |-> T1_SynthArg])
    /\ created' = created \cup {AudioFile}
    /\ disk' = disk \cup {AudioFile}
    /\ shown' = Append(shown, "success_audio")
    /\ pc' = "deliver"
    /\ UNCHANGED <<tab, uploaded_file, button, topic_input, raw_text, summary,
                   generated_text, outcome, sltVars>>

\* lines 133-135, synthesize_speech raising inside the NamedTemporaryFile block
T1_SynthesizeRaise ==
    /\ pc = "synthesize" /\ tab = "doc"
    /\ calls' = Append(calls, [fn |-> "synthesize_speech", arg |-> T1_SynthArg])
    /\ created' = created \cup {AudioFile}
    /\ disk' = disk \cup {AudioFile}
    /\ shown' = Append(shown, "exception")
    /\ outcome' = "exception_synthesizing"
    /\ pc' = "failed"
    /\ UNCHANGED <<tab, uploaded_file, button, topic_input, raw_text, summary,
                   generated_text, sltVars>>

\* lines 141-150
T1_Deliver ==
    /\ pc = "deliver" /\ tab = "doc"
    /\ shown' = shown \o <<"audio", "download_button">>
    /\ disk' = disk \ {AudioFile}
    /\ outcome' = "audio_delivered"
    /\ pc' = "done"
    /\ UNCHANGED <<tab, uploaded_file, button, topic_input, raw_text, summary,
                   generated_text, calls, created, sltVars>>

\* ------------------------------------------------------ tab 2: from a topic
\* line 77
Prompt(topic) == <<"A short article about ">> \o topic \o <<":", "\n", "\n">>

\* lines 157-160 and 187-188: generate_btn clicked
T2_Run ==
    /\ pc = "idle"
    /\ \E t \in Topics :
          /\ topic_input' = t
          /\ IF t # <<>>
             THEN pc' = "generate" /\ shown' = shown /\ outcome' = outcome
             ELSE pc' = "done" /\ shown' = Append(shown, "warning_topic")
                  /\ outcome' = "no_topic"
    /\ tab' = "topic"
    /\ UNCHANGED <<uploaded_file, button, raw_text, summary, generated_text, calls,
                   disk, created, sltVars>>

\* lines 162-166, generate_text_from_topic returning
T2_Generate ==
    /\ pc = "generate"
    /\ \E g \in GeneratedTails : generated_text' = Prompt(topic_input) \o g
    /\ calls' = Append(calls, [fn |-> "text_generator", arg |-> Prompt(topic_input)])
    /\ shown' = shown \o <<"success_article", "generated_text">>
    /\ pc' = "synthesize"
    /\ UNCHANGED <<tab, uploaded_file, button, topic_input, raw_text, summary,
                   disk, created, outcome, sltVars>>

\* line 163, generate_text_from_topic raising
T2_GenerateRaise ==
    /\ pc = "generate"
    /\ calls' = Append(calls, [fn |-> "text_generator", arg |-> Prompt(topic_input)])
    /\ shown' = Append(shown, "exception")
    /\ outcome' = "exception_generating"
    /\ pc' = "failed"
    /\ UNCHANGED <<tab, uploaded_file, button, topic_input, raw_text, summary,
                   generated_text, disk, created, sltVars>>

\* lines 169-174, synthesize_speech returning
T2_Synthesize ==
    /\ pc = "synthesize" /\ tab = "topic"
    /\ calls' = Append(calls, [fn |-> "synthesize_speech", arg |-> generated_text])
    /\ created' = created \cup {AudioFile}
    /\ disk' = disk \cup {AudioFile}
    /\ shown' = Append(shown, "success_audio")
    /\ pc' = "deliver"
    /\ UNCHANGED <<tab, uploaded_file, button, topic_input, raw_text, summary,
                   generated_text, outcome, sltVars>>

\* lines 169-171, synthesize_speech raising inside the NamedTemporaryFile block
T2_SynthesizeRaise ==
    /\ pc = "synthesize" /\ tab = "topic"
    /\ calls' = Append(calls, [fn |-> "synthesize_speech", arg |-> generated_text])
    /\ created' = created \cup {AudioFile}
    /\ disk' = disk \cup {AudioFile}
    /\ shown' = Append(shown, "exception")
    /\ outcome' = "exception_synthesizing"
    /\ pc' = "failed"
    /\ UNCHANGED <<tab, uploaded_file, button, topic_input, raw_text, summary,
                   generated_text, sltVars>>

\* lines 177-186
T2_Deliver ==
    /\ pc = "deliver" /\ tab = "topic"
    /\ shown' = shown \o <<"audio", "download_button">>
    /\ disk' = disk \ {AudioFile}
    /\ outcome' = "audio_delivered"
    /\ pc' = "done"
    /\ UNCHANGED <<tab, uploaded_file, button, topic_input, raw_text, summary,
                   generated_text, calls, created, sltVars>>

Init == FlowInit /\ SltIdle

Next ==
    \/ T1_Run \/ T1_Extract \/ T1_ExtractRaise \/ T1_Branch \/ T1_CallSummarize
    \/ SLT_Chunk \/ SLT_SummarizeOk \/ SLT_SummarizeRaise
    \/ T1_SummaryReturn \/ T1_SummaryRaise
    \/ T1_Synthesize \/ T1_SynthesizeRaise \/ T1_Deliver
    \/ T2_Run \/ T2_Generate \/ T2_GenerateRaise
    \/ T2_Synthesize \/ T2_SynthesizeRaise \/ T2_Deliver

Spec == Init /\ [][Next]_vars

\* ============================================================ properties
\* str.split(): the maximal runs of non-whitespace symbols
RECURSIVE WordsFrom(_, _)
WordsFrom(s, cur) ==
    IF s = <<>> THEN (IF cur = <<>> THEN <<>> ELSE <<cur>>)
    ELSE IF Head(s) \in Whitespace
         THEN (IF cur = <<>> THEN <<>> ELSE <<cur>>) \o WordsFrom(Tail(s), <<>>)
         ELSE WordsFrom(Tail(s), cur \o <<Head(s)>>)

Words(s) == WordsFrom(s, <<>>)
Normalize(s) == JoinSpace(Words(s))

\* the sentence units of a text: its maximal pieces ending in '.', '?' or '!',
\* and the trailing remainder
RECURSIVE UnitsFrom(_, _)
UnitsFrom(s, cur) ==
    IF s = <<>> THEN (IF cur = <<>> THEN {} ELSE {cur})
    ELSE IF Head(s) \in Punctuation
         THEN {cur \o <<Head(s)>>} \cup UnitsFrom(Tail(s), <<>>)
         ELSE UnitsFrom(Tail(s), cur \o <<Head(s)>>)

SentenceUnits(s) == UnitsFrom(s, <<>>)

\* the reference greedy packer: a buffer is closed only when it is non-empty and
\* the next unit would make it exceed cs; a non-empty last buffer is flushed
RECURSIVE RefPack(_, _, _)
RefPack(units, buf, cs) ==
    IF units = <<>> THEN (IF buf # <<>> THEN <<buf>> ELSE <<>>)
    ELSE IF buf # <<>> /\ StrLen(buf) + StrLen(Head(units)) > cs
         THEN <<buf>> \o RefPack(Tail(units), Head(units), cs)
         ELSE RefPack(Tail(units), buf \o Head(units), cs)

StripEos(s) == SelectSeq(s, LAMBDA c : c # EOS)

Has(log, e) == \E i \in 1..Len(log) : log[i] = e
Called(f) == \E i \in 1..Len(calls) : calls[i].fn = f
Terminal == pc \in {"done", "failed"}
Chunked == slt_pc = "chunked" /\ chunk_size > 0

\* C1: with a positive chunk_size, every chunk handed to the summarizer is at most
\* chunk_size characters long, unless it is exactly one sentence unit of the text
\* that is by itself longer than chunk_size.
C1_ChunkBound ==
    Chunked => \A i \in 1..Len(chunks) :
        \/ StrLen(chunks[i]) <= chunk_size
        \/ chunks[i] \in SentenceUnits(text)

\* The bound of C1 restricted to texts holding no literal "<eos>": it holds, so
\* the in-band marker is the only way C1 fails.
NoLiteralEos == \A i \in 1..Len(text) : text[i] # EOS
ChunkBoundWithoutLiteralEos == NoLiteralEos => C1_ChunkBound

\* C2: with a positive chunk_size, the chunks joined with single spaces and split
\* on whitespace give the word sequence of the original text.
C2_WordsPreserved ==
    Chunked => Words(JoinSpace(chunks)) = Words(text)

\* C6: with chunk_size zero or negative the call fails with InvalidArgument: it
\* produces no chunk and never invokes the summarizer.
C6_InvalidArgument ==
    (chunk_size <= 0 /\ slt_pc # "start") =>
        /\ slt_pc = "invalid_argument"
        /\ chunks = <<>>
        /\ ~Called("summarizer")

C9_GreedyCount ==
    Chunked =>
        /\ Len(chunks) = Len(RefPack(Sentences(text), <<>>, chunk_size))
        /\ \A i \in 1..Len(chunks) : chunks[i] # <<>>

\* C3: once a request has reached a terminal outcome, no temporary file it created
\* is still on disk.
C3_NoTempFileLeft ==
    Terminal => created \cap disk = {}

\* C4: in the document flow, synthesize_speech is called only once the summary has
\* been written to the page, and when it fails neither the audio player nor the
\* download button is rendered.
C4_SummaryShownNoAudio ==
    /\ (tab = "doc" /\ Called("synthesize_speech")) => Has(shown, "summary")
    /\ (tab = "doc" /\ outcome = "exception_synthesizing") =>
          /\ pc = "failed"
          /\ ~Has(shown, "audio")
          /\ ~Has(shown, "download_button")

C4_Witness ==
    /\ tab = "doc" /\ outcome = "exception_synthesizing"
    /\ summary # None /\ Has(shown, "summary")

\* C5: in the document flow, once the summarizer has failed (on any chunk) no
\* summary is ever shown, synthesize_speech is never called and the request can
\* only end as failed.
C5_NoPartialSummary ==
    (tab = "doc" /\ fail_index >= 0) =>
        /\ ~Has(shown, "summary")
        /\ summary = None
        /\ ~Called("synthesize_speech")
        /\ pc \in {"summarizing", "failed"}

C5_Witness ==
    /\ tab = "doc" /\ pc = "failed"
    /\ fail_index >= 2 /\ Len(chunks) >= 3
    /\ outcome = "exception_summarizing"

C8_WitnessTopic ==
    /\ tab = "topic" /\ outcome = "audio_delivered"
    /\ calls[Len(calls)].fn = "synthesize_speech"
    /\ calls[Len(calls)].arg = generated_text

\* C10: in the document flow, a run whose extraction gave nothing (None, the empty
\* string, or a file that cannot be parsed) ends reported as the unsupported-format
\* error, with no summarizer or synthesize_speech call and no audio file.
C10_ExtractionFailure ==
    (/\ tab = "doc" /\ Terminal
     /\ \/ ExtractRaises(uploaded_file)
        \/ ~Truthy(ExtractResult(uploaded_file))) =>
        /\ Has(shown, "error_unsupported")
        /\ ~Called("summarizer")
        /\ ~Called("synthesize_speech")
        /\ AudioFile \notin created

====
